---- MODULE Spec2Model ----
(***************************************************************************)
(* A model of wyag's storage core: the object codec and object store       *)
(* (gitobject.py, gitobject_utils.py), the refs, the index codec and the   *)
(* add / rm / tree_from_index workflows (utils.py).                        *)
(*                                                                         *)
(* Conventions.  A Python `bytes` value is a sequence of integers 0..255;  *)
(* a Python `str` is a TLA+ string.  Offsets and slices are Python's       *)
(* (0-based, half-open, clipped), see Slice.  A call's outcome is a record *)
(* [exc, val]: exc = "" when the call returned val, otherwise the name of  *)
(* the exception that left the call.                                       *)
(***************************************************************************)
EXTENDS Integers, Sequences, FiniteSets, TLC

VARIABLES
    objects,    \* the files under objects/: identifier -> file bytes
    refs,       \* the ref files: path under the git directory -> text
    index,      \* the index file: its bytes, or NoFile
    ret,        \* the last call: [op, args, exc, val]
    prev,       \* the call before it
    calls,      \* the number of calls made
    procs       \* the calls in progress: process -> its position and locals

vars == <<objects, refs, index, ret, prev, calls, procs>>

-----------------------------------------------------------------------------
(* Bounds of the model *)

MaxCalls == 2       \* the calls of one run
MaxEntries == 2     \* the longest index and the largest tree of the model
-----------------------------------------------------------------------------
(* Python values *)

None == "None"
NoObject == [fmt |-> "NoneType"]
NoFile == <<-1>>

Ok(v) == [exc |-> "", val |-> v]
Raise(e) == [exc |-> e, val |-> None]

\* a float, which has no to_bytes, is held as a negative number
Float(x) == -1 - x
IsFloat(x) == x < 0

Min(a, b) == IF a < b THEN a ELSE b
Max(a, b) == IF a > b THEN a ELSE b

\* s[a:b] of Python, for a sequence or a string
Slice(s, a, b) ==
    LET n  == Len(s)
        lo == IF a < 0 THEN Max(n + a, 0) ELSE Min(a, n)
        hi == IF b < 0 THEN Max(n + b, 0) ELSE Min(b, n)
    IN  SubSeq(s, lo + 1, hi)

\* s[a:] of Python
SliceFrom(s, a) == Slice(s, a, Len(s))

\* s.startswith(p) of Python
StartsWith(s, p) == Len(p) <= Len(s) /\ SubSeq(s, 1, Len(p)) = p

\* the character at 0-based offset i of a string
CharAt(s, i) == SubSeq(s, i + 1, i + 1)

\* bytes.find(b, start): the 0-based offset of byte b at or after start, or -1
Find(raw, b, start) ==
    LET hits == {i \in Max(start, 0)..(Len(raw) - 1) : raw[i + 1] = b}
    IN  IF hits = {} THEN -1
        ELSE CHOOSE i \in hits : \A j \in hits : i <= j

SP == 32
NUL == 0
LF == 10

\* the characters of the model's texts, by segments of consecutive codes
Punct == " !',-./:<>@_"
PunctCodes == <<32, 33, 39, 44, 45, 46, 47, 58, 60, 62, 64, 95>>
Num == "0123456789"
Cap == "ABCDEFGHIJKLMNOPQRSTUVWXYZ"
Low == "abcdefghijklmnopqrstuvwxyz"

PosIn(s, c) == CHOOSE i \in 1..Len(s) : SubSeq(s, i, i) = c
HasChar(s, c) == \E i \in 1..Len(s) : SubSeq(s, i, i) = c
CharsOf(s) == {SubSeq(s, i, i) : i \in 1..Len(s)}

\* ord(c), as a table over the characters of the model
OrdTable ==
    [c \in CharsOf(Punct) \cup CharsOf(Num) \cup CharsOf(Cap) \cup CharsOf(Low) \cup {"\n"} |->
        IF c = "\n" THEN LF
        ELSE IF HasChar(Num, c) THEN 47 + PosIn(Num, c)
        ELSE IF HasChar(Cap, c) THEN 64 + PosIn(Cap, c)
        ELSE IF HasChar(Low, c) THEN 96 + PosIn(Low, c)
        ELSE PunctCodes[PosIn(Punct, c)]]

Ord(c) == OrdTable[c]

\* chr(b)
ChrTable ==
    [b \in {OrdTable[c] : c \in DOMAIN OrdTable} |-> CHOOSE c \in DOMAIN OrdTable : OrdTable[c] = b]

Chr(b) == ChrTable[b]

\* str.encode() on ASCII text
Encode(s) == [i \in 1..Len(s) |-> Ord(SubSeq(s, i, i))]

\* bytes.decode() on ASCII bytes
RECURSIVE DecodeOf(_, _, _)
DecodeOf(b, lo, hi) ==
    IF lo > hi THEN ""
    ELSE IF lo = hi THEN Chr(b[lo])
    ELSE DecodeOf(b, lo, (lo + hi) \div 2) \o DecodeOf(b, (lo + hi) \div 2 + 1, hi)

Decode(b) == DecodeOf(b, 1, Len(b))

Digits == "0123456789abcdef"

\* str(n) for n >= 0
RECURSIVE Str(_)
Str(n) == IF n < 10 THEN SubSeq(Digits, n + 1, n + 1)
          ELSE Str(n \div 10) \o SubSeq(Digits, (n % 10) + 1, (n % 10) + 1)

IsDecimal(b) == b # <<>> /\ \A i \in 1..Len(b) : b[i] \in 48..57

RECURSIVE DecVal(_)
DecVal(b) == IF b = <<>> THEN 0 ELSE 10 * DecVal(SubSeq(b, 1, Len(b) - 1)) + (b[Len(b)] - 48)

\* bytes.strip() of the blanks int() ignores
RECURSIVE Strip(_)
Strip(b) == IF b # <<>> /\ Head(b) \in {SP, LF} THEN Strip(Tail(b))
            ELSE IF b # <<>> /\ b[Len(b)] \in {SP, LF} THEN Strip(SubSeq(b, 1, Len(b) - 1))
            ELSE b

\* int(text): the number, or ValueError
PyInt(b) == IF IsDecimal(Strip(b)) THEN Ok(DecVal(Strip(b))) ELSE Raise("ValueError")

\* the n-digit lower-case hexadecimal form of v, most significant digit first
RECURSIVE Hex(_, _)
Hex(v, n) == IF n = 0 THEN ""
             ELSE Hex(v \div 16, n - 1) \o SubSeq(Digits, (v % 16) + 1, (v % 16) + 1)

IsHexChar(c) == HasChar(Digits, c) \/ HasChar("ABCDEF", c)

\* the value of one hexadecimal digit, either case
HexVal(c) == IF HasChar(Digits, c) THEN PosIn(Digits, c) - 1 ELSE 9 + PosIn("ABCDEF", c)

\* str.lower()
RECURSIVE Lower(_)
Lower(s) ==
    IF s = "" THEN ""
    ELSE LET c == SubSeq(s, 1, 1)
         IN  (IF HasChar(Cap, c) THEN SubSeq(Low, PosIn(Cap, c), PosIn(Cap, c)) ELSE c)
                \o Lower(SubSeq(s, 2, Len(s)))

\* a < b for Python strings (by code points)
RECURSIVE StrLess(_, _)
StrLess(a, b) ==
    IF b = "" THEN FALSE
    ELSE IF a = "" THEN TRUE
    ELSE LET x == Ord(SubSeq(a, 1, 1))
             y == Ord(SubSeq(b, 1, 1))
         IN  IF x # y THEN x < y
             ELSE StrLess(SubSeq(a, 2, Len(a)), SubSeq(b, 2, Len(b)))
-----------------------------------------------------------------------------
(* hashlib and zlib *)

\* the sum of i^k * (b[i] + 1) over lo..hi, modulo 16^6; the fold halves
\* its range at every step
RECURSIVE Moment(_, _, _, _)
Moment(b, lo, hi, k) ==
    IF lo > hi THEN 0
    ELSE IF lo = hi THEN ((IF k = 0 THEN 1 ELSE IF k = 1 THEN lo ELSE lo * lo) * (b[lo] + 1)) % 16777216
    ELSE (Moment(b, lo, (lo + hi) \div 2, k) + Moment(b, (lo + hi) \div 2 + 1, hi, k)) % 16777216

\* hashlib.sha1(b).hexdigest(): 40 hexadecimal digits, a stand-in digest that
\* is injective on the byte strings of the model; its first four digits are a
\* plain sum of the bytes, so that short prefixes do collide
Sha1(b) ==
    LET n == Len(b)
        w == Hex(Moment(b, 1, n, 1), 6) \o Hex(Moment(b, 1, n, 2), 6)
    IN  Hex(Moment(b, 1, n, 0) % 65536, 4) \o w \o w \o w

ZDefault == <<120, 156>>    \* the zlib header of zlib.compress's default level
ZFastest == <<120, 1>>      \* the zlib header git writes loose objects with

\* zlib.compress(b): the zlib header, the deflate stream held as its content
zlib_compress(b) == ZDefault \o b

\* zlib.decompress(f)
zlib_decompress(f) ==
    IF Len(f) >= 2 /\ SubSeq(f, 1, 2) \in {ZDefault, ZFastest}
    THEN Ok(SubSeq(f, 3, Len(f)))
    ELSE Raise("zlib.error")
-----------------------------------------------------------------------------
(* gitobject.py: the object classes *)

Classes == {"GitBlob", "GitCommit", "GitTree", "GitTag"}

\* the method names each class body defines
ClassMethods ==
    [GitObject |-> {"__init__", "serialize", "desearialize", "init"},
     GitBlob   |-> {"serialize", "deserialize"},
     GitCommit |-> {"desearialize", "serialize", "init"},
     GitTree   |-> {"desearialize", "serialize", "init"},
     GitTag    |-> {}]

\* the method resolution order of each class
ClassMro ==
    [GitBlob   |-> <<"GitBlob", "GitObject">>,
     GitCommit |-> <<"GitCommit", "GitObject">>,
     GitTree   |-> <<"GitTree", "GitObject">>,
     GitTag    |-> <<"GitTag", "GitCommit", "GitObject">>]

\* the class attribute fmt
ClassFmt ==
    [GitBlob |-> "blob", GitCommit |-> "commit", GitTree |-> "tree", GitTag |-> "tag"]

\* attribute lookup of a method: the class whose body supplies it, "" if none
MethodOwner(cls, m) ==
    LET mro  == ClassMro[cls]
        hits == {i \in 1..Len(mro) : m \in ClassMethods[mro[i]]}
    IN  IF hits = {} THEN ""
        ELSE mro[CHOOSE i \in hits : \A j \in hits : i <= j]

NoData == <<-1>>        \* data=None
RepoAsData == <<-2>>    \* a repository handle passed as data

\* GitObject.__init__(self, data): the object built, or the exception
GitObject(cls, data) ==
    LET \* self.deserialize(data); the one deserialize is GitBlob's
        Deserialize(owner) ==
            IF owner = "" THEN Raise("AttributeError")
            ELSE Ok([cls |-> cls, blobdata |-> data])
        \* self.init()
        InitOf(owner) ==
            IF owner = "GitCommit" THEN Ok([cls |-> cls, kvlm |-> <<>>])
            ELSE IF owner = "GitTree" THEN Ok([cls |-> cls, items |-> <<>>])
            ELSE Ok([cls |-> cls])
    IN  IF data # NoData THEN Deserialize(MethodOwner(cls, "deserialize"))
        ELSE InitOf(MethodOwner(cls, "init"))

GitTreeLeaf(mode, path, sha) == [mode |-> mode, path |-> path, sha |-> sha]

\* format(int.from_bytes(b, "big"), "040x") for at most 20 bytes
RECURSIVE HexOfBytes(_)
HexOfBytes(b) == IF b = <<>> THEN "" ELSE Hex(Head(b), 2) \o HexOfBytes(Tail(b))

RECURSIVE Zeros(_)
Zeros(n) == IF n <= 0 THEN "" ELSE "0" \o Zeros(n - 1)

Format040x(b) == Zeros(40 - 2 * Len(b)) \o HexOfBytes(b)

tree_parse_one(raw, start) ==
    LET x == Find(raw, SP, start)
    IN  IF ~(x - start = 5 \/ x - start = 6) THEN Raise("AssertionError")
        ELSE LET m    == Slice(raw, start, x)
                 mode == IF Len(m) = 5 THEN <<SP>> \o m ELSE m
                 y    == Find(raw, NUL, x)
                 path == Slice(raw, x + 1, y)
                 sha  == Format040x(Slice(raw, y + 1, y + 21))
             IN  Ok([pos |-> y + 21, leaf |-> GitTreeLeaf(mode, Decode(path), sha)])

\* tree_parse from cursor pos with the entries read so far; a cursor that
\* comes back to an offset it has left keeps appending until memory runs out
RECURSIVE tree_parse_from(_, _, _, _)
tree_parse_from(raw, pos, acc, seen) ==
    LET WithOne(one) ==
            IF one.exc # "" THEN one
            ELSE tree_parse_from(raw, one.val.pos, Append(acc, one.val.leaf), seen \cup {pos})
    IN  IF ~(pos < Len(raw)) THEN Ok(acc)
        ELSE IF pos \in seen THEN Raise("MemoryError")
        ELSE WithOne(tree_parse_one(raw, pos))

tree_parse(raw) == tree_parse_from(raw, 0, <<>>, {})

tree_leaf_sort_key(leaf) ==
    IF StartsWith(leaf.mode, Encode("10")) THEN leaf.path ELSE leaf.path \o "/"

\* list.sort(key=tree_leaf_sort_key): stable, ascending
RECURSIVE InsertLeaf(_, _)
InsertLeaf(sorted, leaf) ==
    IF sorted = <<>> THEN <<leaf>>
    ELSE LET last == sorted[Len(sorted)]
         IN  IF StrLess(tree_leaf_sort_key(leaf), tree_leaf_sort_key(last))
             THEN Append(InsertLeaf(SubSeq(sorted, 1, Len(sorted) - 1), leaf), last)
             ELSE Append(sorted, leaf)

RECURSIVE SortLeaves(_)
SortLeaves(items) ==
    IF items = <<>> THEN <<>>
    ELSE InsertLeaf(SortLeaves(SubSeq(items, 1, Len(items) - 1)), items[Len(items)])

IsHex(s) == s # "" /\ \A i \in 1..Len(s) : IsHexChar(SubSeq(s, i, i))

\* the bytes of a 2k-digit hexadecimal text
RECURSIVE BytesOfHex(_)
BytesOfHex(h) ==
    IF h = "" THEN <<>>
    ELSE <<16 * HexVal(SubSeq(h, 1, 1)) + HexVal(SubSeq(h, 2, 2))>> \o BytesOfHex(SubSeq(h, 3, Len(h)))

\* int(sha, 16).to_bytes(length, byteorder), byteorder "big"
IntToBytes(sha, length, byteorder) ==
    IF ~IsHex(sha) THEN Raise("ValueError")
    ELSE IF byteorder \notin {"little", "big"} THEN Raise("ValueError")
    ELSE IF Len(sha) > 2 * length THEN Raise("OverflowError")
    ELSE Ok(BytesOfHex(Zeros(2 * length - Len(sha)) \o sha))

\* the loop of tree_serializer over the sorted items
RECURSIVE tree_serializer_loop(_, _)
tree_serializer_loop(items, acc) ==
    LET WithSha(i, sha) ==
            IF sha.exc # "" THEN sha
            ELSE tree_serializer_loop(Tail(items),
                     acc \o i.mode \o <<SP>> \o Encode(i.path) \o <<NUL>> \o sha.val)
    IN  IF items = <<>> THEN Ok(acc)
        ELSE WithSha(Head(items), IntToBytes(Head(items).sha, 20, "bit"))

tree_serializer(obj) == tree_serializer_loop(SortLeaves(obj.items), <<>>)

\* kvlm_serialize: one "key SP value LF" line per header in mapping order,
\* then a blank line and the message, which the mapping holds under key ""
RECURSIVE kvlm_headers(_)
kvlm_headers(kvlm) ==
    IF kvlm = <<>> THEN <<>>
    ELSE (IF Head(kvlm).k = "" THEN <<>>
          ELSE Encode(Head(kvlm).k) \o <<SP>> \o Head(kvlm).v \o <<LF>>)
         \o kvlm_headers(Tail(kvlm))

kvlm_message(kvlm) ==
    LET hits == {i \in 1..Len(kvlm) : kvlm[i].k = ""}
    IN  IF hits = {} THEN <<>> ELSE kvlm[CHOOSE i \in hits : TRUE].v

kvlm_serialize(kvlm) == kvlm_headers(kvlm) \o <<LF>> \o kvlm_message(kvlm)

\* obj.serialize()
Serialize(obj) ==
    LET By(owner) ==
            IF owner = "GitBlob"
            THEN (IF "blobdata" \in DOMAIN obj THEN Ok(obj.blobdata) ELSE Raise("AttributeError"))
            ELSE IF owner = "GitCommit"
            THEN (IF "kvlm" \in DOMAIN obj THEN Ok(kvlm_serialize(obj.kvlm)) ELSE Raise("AttributeError"))
            ELSE IF owner = "GitTree"
            THEN (IF "items" \in DOMAIN obj THEN tree_serializer(obj) ELSE Raise("AttributeError"))
            ELSE Raise("Exception")
    IN  By(MethodOwner(obj.cls, "serialize"))
-----------------------------------------------------------------------------
(* gitobject_utils.py: the object store *)

\* repo_file(repo, *path): the path under the git directory
RECURSIVE repo_file(_)
repo_file(path) ==
    IF Len(path) = 1 THEN path[1]
    ELSE path[1] \o "/" \o repo_file(Tail(path))

\* the on-disk path of identifier sha
ObjectPath(sha) == repo_file(<<"objects", Slice(sha, 0, 2), SliceFrom(sha, 2)>>)

\* "<fmt> <len>\0<data>"
ObjectHeader(fmt, data) == Encode(fmt) \o <<SP>> \o Encode(Str(Len(data))) \o <<NUL>> \o data

object_read(store, sha) ==
    LET WithObject(o) == IF o.exc # "" THEN [exc |-> o.exc, val |-> NoObject] ELSE o
        WithSize(raw, y, fmt, size) ==
            IF size.exc # "" THEN [exc |-> size.exc, val |-> NoObject]
            ELSE IF size.val # Len(raw) - y - 1
            THEN [exc |-> "Exception", val |-> NoObject]
            ELSE IF \A c \in Classes : fmt # Encode(ClassFmt[c])
            THEN [exc |-> "Exception", val |-> NoObject]
            ELSE WithObject(GitObject(CHOOSE c \in Classes : fmt = Encode(ClassFmt[c]),
                                      SliceFrom(raw, y + 1)))
        WithY(raw, x, y) == WithSize(raw, y, Slice(raw, 0, x), PyInt(Slice(raw, x, y)))
        WithX(raw, x) == WithY(raw, x, Find(raw, NUL, x))
        WithRaw(z) ==
            IF z.exc # "" THEN [exc |-> z.exc, val |-> NoObject]
            ELSE WithX(z.val, Find(z.val, SP, 0))
    IN  IF sha = None THEN Raise("TypeError")
        ELSE IF ObjectPath(sha) \notin DOMAIN store THEN Ok(NoObject)
        ELSE WithRaw(zlib_decompress(store[ObjectPath(sha)]))

\* object_write without its `if not os.path.exists(path)`
object_write_always(store, obj, repo) ==
    LET WithPath(result, sha, path) ==
            [exc     |-> "",
             val     |-> sha,
             objects |-> IF repo
                         THEN [p \in DOMAIN store \cup {path} |->
                                  IF p = path THEN zlib_compress(result) ELSE store[p]]
                         ELSE store]
        WithSha(result, sha) == WithPath(result, sha, ObjectPath(sha))
        WithResult(result) == WithSha(result, Sha1(result))
        WithData(data) ==
            IF data.exc # "" THEN [exc |-> data.exc, val |-> None, objects |-> store]
            ELSE WithResult(ObjectHeader(ClassFmt[obj.cls], data.val))
    IN  WithData(Serialize(obj))

\* object_write(obj, repo): the outcome and the object files after the call
object_write(store, obj, repo) ==
    LET WithPath(result, sha, path) ==
            [exc     |-> "",
             val     |-> sha,
             objects |-> IF repo /\ path \notin DOMAIN store
                         THEN (path :> zlib_compress(result)) @@ store
                         ELSE store]
        WithSha(result, sha) == WithPath(result, sha, ObjectPath(sha))
        WithResult(result) == WithSha(result, Sha1(result))
        WithData(data) ==
            IF data.exc # "" THEN [exc |-> data.exc, val |-> None, objects |-> store]
            ELSE WithResult(ObjectHeader(ClassFmt[obj.cls], data.val))
    IN  WithData(Serialize(obj))

\* object_hash(fd, fmt, repo) on a file holding data
object_hash(store, data, fmt, repo) ==
    LET WithObj(obj) ==
            IF obj.exc # "" THEN [exc |-> obj.exc, val |-> None, objects |-> store]
            ELSE object_write(store, obj.val, repo)
    IN  IF \A c \in Classes : fmt # ClassFmt[c]
        THEN [exc |-> "Exception", val |-> None, objects |-> store]
        ELSE WithObj(GitObject(CHOOSE c \in Classes : fmt = ClassFmt[c], data))

\* ref_resolve(repo, ref); `seen` holds the refs of the enclosing calls: a ref
\* met again recurses without end, which Python ends with RecursionError
RECURSIVE ref_resolve_from(_, _, _)
ref_resolve_from(rf, ref, seen) ==
    LET path == repo_file(<<ref>>)
    IN  IF path \notin DOMAIN rf THEN Ok(None)
        ELSE IF ref \in seen THEN Raise("RecursionError")
        ELSE LET data == Slice(rf[path], 0, -1)
             IN  IF StartsWith(data, "ref: ")
                 THEN ref_resolve_from(rf, SliceFrom(data, 5), seen \cup {ref})
                 ELSE Ok(data)

ref_resolve(rf, ref) == ref_resolve_from(rf, ref, {})

\* ref_create(repo, ref_name, sha): the outcome and the ref files after it;
\* open(.., 'w') has emptied the file when sha + "\n" fails on sha = None
ref_create(rf, ref_name, sha) ==
    LET path == repo_file(<<"refs/" \o ref_name>>)
    IN  IF sha = None
        THEN [exc |-> "TypeError", val |-> None, refs |-> (path :> "") @@ rf]
        ELSE [exc |-> "", val |-> None, refs |-> (path :> (sha \o "\n")) @@ rf]

\* hashRE.match(name): ^[0-9A-Fa-f]{4,40}$
hashRE(name) == Len(name) >= 4 /\ Len(name) <= 40 /\ IsHex(name)

\* name.strip() for the blanks of the model's names
RECURSIVE StripStr(_)
StripStr(s) ==
    IF s # "" /\ SubSeq(s, 1, 1) \in {" ", "\n"} THEN StripStr(SubSeq(s, 2, Len(s)))
    ELSE IF s # "" /\ SubSeq(s, Len(s), Len(s)) \in {" ", "\n"} THEN StripStr(SubSeq(s, 1, Len(s) - 1))
    ELSE s

\* os.listdir of objects/<prefix>, in some order; no entry when it is absent
RECURSIVE SeqOfSet(_)
SeqOfSet(S) ==
    IF S = {} THEN <<>>
    ELSE LET x == CHOOSE x \in S : \A y \in S : x = y \/ StrLess(x, y)
         IN  <<x>> \o SeqOfSet(S \ {x})

listdir(store, prefix) ==
    LET dir == repo_file(<<"objects", prefix>>) \o "/"
    IN  SeqOfSet({SliceFrom(p, Len(dir)) : p \in {q \in DOMAIN store : StartsWith(q, dir)}})

RECURSIVE SelectPrefixed(_, _, _)
SelectPrefixed(fs, prefix, rem) ==
    IF fs = <<>> THEN <<>>
    ELSE (IF StartsWith(Head(fs), rem) THEN <<prefix \o Head(fs)>> ELSE <<>>)
         \o SelectPrefixed(Tail(fs), prefix, rem)

\* object_resolve(repo, name): val is [none, list], none when it returns None
object_resolve(store, rf, name) ==
    LET NoList == [none |-> TRUE, list |-> <<>>]
        WithHead(h) ==
            IF h.exc # "" THEN [exc |-> h.exc, val |-> NoList]
            ELSE Ok([none |-> FALSE, list |-> <<h.val>>])
        WithRefs(candidates, as_tag, as_branch) ==
            IF as_tag.exc # "" THEN [exc |-> as_tag.exc, val |-> NoList]
            ELSE IF as_branch.exc # "" THEN [exc |-> as_branch.exc, val |-> NoList]
            ELSE Ok([none |-> FALSE,
                     list |-> candidates
                              \o (IF as_tag.val \notin {None, ""} THEN <<as_tag.val>> ELSE <<>>)
                              \o (IF as_branch.val \notin {None, ""} THEN <<as_branch.val>> ELSE <<>>)])
        \* nm is name after the hash branch, which lower-cases it
        WithName(isHash, nm) ==
            WithRefs(IF isHash
                     THEN SelectPrefixed(listdir(store, Slice(nm, 0, 2)),
                                         Slice(nm, 0, 2), SliceFrom(nm, 2))
                     ELSE <<>>,
                     ref_resolve(rf, "refs/tags/" \o nm),
                     ref_resolve(rf, "refs/heads/" \o nm))
    IN  IF StripStr(name) = "" THEN Ok(NoList)
        ELSE IF name = "HEAD" THEN WithHead(ref_resolve(rf, "HEAD"))
        ELSE WithName(hashRE(name), IF hashRE(name) THEN Lower(name) ELSE name)

\* kvlm[key], for a mapping held as a sequence of [k, v]
KvlmHas(kvlm, key) == \E i \in 1..Len(kvlm) : kvlm[i].k = key
KvlmGet(kvlm, key) == kvlm[CHOOSE i \in 1..Len(kvlm) : kvlm[i].k = key].v

\* the `while True` loop of object_find; an identifier met again loops forever
RECURSIVE object_find_loop(_, _, _, _, _)
object_find_loop(store, sha, fmt, follow, seen) ==
    LET Follow(kvlm, key) ==
            IF ~KvlmHas(kvlm, key) THEN Raise("KeyError")
            ELSE IF sha \in seen THEN Raise("Hang")
            ELSE object_find_loop(store, Decode(KvlmGet(kvlm, key)), fmt, follow, seen \cup {sha})
        WithObj(obj) ==
            IF obj.exc # "" THEN Raise(obj.exc)
            ELSE IF obj.val = NoObject THEN Raise("AttributeError")
            ELSE IF ClassFmt[obj.val.cls] = fmt THEN Ok(sha)
            ELSE IF ~follow THEN Ok(None)
            ELSE IF ClassFmt[obj.val.cls] = "tag" \/ (ClassFmt[obj.val.cls] = "commit" /\ fmt = "tree")
            THEN (IF "kvlm" \notin DOMAIN obj.val THEN Raise("AttributeError")
                  ELSE Follow(obj.val.kvlm,
                              IF ClassFmt[obj.val.cls] = "tag" THEN "object" ELSE "tree"))
            ELSE Ok(None)
    IN  WithObj(object_read(store, sha))

\* object_find(repo, name, fmt, follow); fmt "" is fmt=None.  Its two
\* `raise Exception(..)` are told apart by name: NoSuchReference, and
\* Ambiguous, whose val holds the candidates the message lists
object_find(store, rf, name, fmt, follow) ==
    LET WithSha(r) ==
            IF r.exc # "" THEN Raise(r.exc)
            ELSE IF r.val.none \/ r.val.list = <<>> THEN Raise("NoSuchReference")
            ELSE IF Len(r.val.list) > 1 THEN [exc |-> "Ambiguous", val |-> r.val.list]
            ELSE IF fmt = "" THEN Ok(r.val.list[1])
            ELSE object_find_loop(store, r.val.list[1], fmt, follow, {})
    IN  WithSha(object_resolve(store, rf, name))

\* tag_create(repo, name, ref, create_tag_object): outcome, object files and
\* ref files after the call
tag_create(store, rf, name, ref, create_tag_object) ==
    LET Created(objs, c) == [exc |-> c.exc, val |-> None, objects |-> objs, refs |-> c.refs]
        WithTagSha(w) ==
            IF w.exc # "" THEN [exc |-> w.exc, val |-> None, objects |-> w.objects, refs |-> rf]
            ELSE Created(w.objects, ref_create(rf, "tags/" \o name, w.val))
        WithTag(sha, t) ==
            IF t.exc # "" THEN [exc |-> t.exc, val |-> None, objects |-> store, refs |-> rf]
            ELSE WithTagSha(object_write(store,
                     [cls  |-> "GitTag",
                      kvlm |-> <<[k |-> "object", v |-> Encode(sha)],
                                 [k |-> "type", v |-> Encode("commit")],
                                 [k |-> "tagger", v |-> Encode("Wyag <wyag@example.com>")],
                                 [k |-> "", v |-> Encode("A tag generated by wyag, which won't let you customize the message!")]>>],
                     FALSE))
        WithSha(found) ==
            IF found.exc # "" THEN [exc |-> found.exc, val |-> None, objects |-> store, refs |-> rf]
            ELSE IF create_tag_object THEN WithTag(found.val, GitObject("GitTag", RepoAsData))
            ELSE Created(store, ref_create(rf, "tags/" \o name, found.val))
    IN  WithSha(object_find(store, rf, ref, "", TRUE))
-----------------------------------------------------------------------------
(* gitobject.py, gitobject_utils.py: the index *)

\* GitIndexEntry.__init__: the attributes the constructor sets
GitIndexEntry(ctime, mtime, dev, ino, mode_type, mode_perms, uid, gid, fsize, sha, flag_assume_valid, flag_stage, name) ==
    [ctime |-> ctime, mtime |-> mtime, dev |-> dev, ino |-> ino,
     mode_type |-> mode_perms,
     uid |-> uid, gid |-> gid, fsize |-> fsize, sha |-> sha,
     flag_assume_valid |-> flag_assume_valid, flag_stage |-> flag_stage,
     name |-> name]

\* GitIndex.__init__(version, entries)
GitIndex(version, entries) == [cls |-> "GitIndex", version |-> version, entries |-> entries]
NoIndex == [cls |-> "NoneType"]

RECURSIVE Pow(_, _)
Pow(b, e) == IF e = 0 THEN 1 ELSE b * Pow(b, e - 1)

\* n.to_bytes(w, "big") for 0 <= n; OverflowError when n needs more bytes
ToBytes(n, w) ==
    IF w < 4 /\ n >= Pow(256, w) THEN Raise("OverflowError")
    ELSE Ok([i \in 1..w |-> IF w - i >= 4 THEN 0 ELSE (n \div Pow(256, w - i)) % 256])

\* int.from_bytes(b, "big")
RECURSIVE FromBytes(_)
FromBytes(b) == IF b = <<>> THEN 0 ELSE 256 * FromBytes(SubSeq(b, 1, Len(b) - 1)) + b[Len(b)]

\* a | b
RECURSIVE BitOr(_, _)
BitOr(a, b) == IF a = 0 THEN b
               ELSE IF b = 0 THEN a
               ELSE 2 * BitOr(a \div 2, b \div 2) + (IF a % 2 = 1 \/ b % 2 = 1 THEN 1 ELSE 0)

\* the fields of one entry index_write emits before the mode, in order
EntryTimes(e) ==
    ToBytes(e.ctime[1], 4).val \o ToBytes(e.ctime[2], 4).val
        \o ToBytes(e.mtime[1], 4).val \o ToBytes(e.mtime[2], 4).val
        \o ToBytes(e.dev, 4).val \o ToBytes(e.ino, 4).val

\* the body of index_write's loop for entry e, with idx bytes of entries
\* emitted before it: the bytes emitted for e and the exception that ended it
index_write_entry(e, idx) ==
    LET Pad(end) == [i \in 1..(IF end % 8 # 0 THEN 8 - (end % 8) ELSE 0) |-> 0]
        WithName(front, sha, flags, name_bytes) ==
            IF sha.exc # "" THEN [exc |-> sha.exc, bytes |-> front]
            ELSE IF flags.exc # "" THEN [exc |-> flags.exc, bytes |-> front \o sha.val]
            ELSE [exc   |-> "",
                  bytes |-> front \o sha.val \o flags.val \o name_bytes \o <<0>>
                               \o Pad(idx + 62 + Len(name_bytes) + 1)]
        \* name_length is bytes_len in both branches of `if bytes_len >= 0xFFF`
        WithFlags(front, flag_assume_valid, name_bytes) ==
            WithName(front, IntToBytes(e.sha, 20, "big"),
                     ToBytes(BitOr(BitOr(flag_assume_valid, e.flag_stage), Len(name_bytes)), 2),
                     name_bytes)
        WithMode(mode) ==
            WithFlags(EntryTimes(e) \o ToBytes(mode, 4).val
                         \o ToBytes(e.uid, 4).val \o ToBytes(e.gid, 4).val
                         \o ToBytes(e.fsize, 4).val,
                      IF e.flag_assume_valid THEN 32768 ELSE 0,
                      Encode(e.name))
    IN  IF IsFloat(e.mtime[2])
        THEN [exc |-> "AttributeError",
              bytes |-> ToBytes(e.ctime[1], 4).val \o ToBytes(e.ctime[2], 4).val
                           \o ToBytes(e.mtime[1], 4).val]
        ELSE IF "mode_perms" \notin DOMAIN e
        THEN [exc |-> "AttributeError", bytes |-> EntryTimes(e)]
        ELSE WithMode(BitOr(e.mode_type * 4096, e.mode_perms))

RECURSIVE index_write_loop(_, _, _)
index_write_loop(entries, idx, acc) ==
    LET WithOne(one) ==
            IF one.exc # "" THEN [exc |-> one.exc, bytes |-> acc \o one.bytes]
            ELSE index_write_loop(Tail(entries), idx + Len(one.bytes), acc \o one.bytes)
    IN  IF entries = <<>> THEN [exc |-> "", bytes |-> acc]
        ELSE WithOne(index_write_entry(Head(entries), idx))

\* index_write(repo, index): the outcome and the index file after the call;
\* the file keeps what was written before an exception
index_write(idx) ==
    LET WithBody(header, body) == [exc |-> body.exc, val |-> None, index |-> header \o body.bytes]
    IN  IF idx = NoIndex THEN [exc |-> "AttributeError", val |-> None, index |-> Encode("DIRC")]
        ELSE WithBody(Encode("DIRC") \o ToBytes(idx.version, 4).val
                         \o ToBytes(Len(idx.entries), 4).val,
                      index_write_loop(idx.entries, 0, <<>>))

\* the body of index_read's loop at offset idx of content: the entry and the
\* offset after it
index_read_entry(content, idx) ==
    LET F(a, b) == FromBytes(Slice(content, idx + a, idx + b))
        WithName(mode, flags, name_length, raw_name, after) ==
            IF mode \div 4096 \notin {8, 10, 14} THEN Raise("AssertionError")
            ELSE IF (flags \div 16384) % 2 # 0 THEN Raise("AssertionError")
            ELSE IF name_length < 4095 /\ idx + 62 + name_length >= Len(content)
            THEN Raise("IndexError")
            ELSE IF name_length < 4095 /\ content[idx + 62 + name_length + 1] # 0
            THEN Raise("AssertionError")
            ELSE Ok([idx   |-> 8 * ((after + 7) \div 8),
                     entry |-> GitIndexEntry(<<F(0, 4), F(4, 8)>>, <<F(8, 12), F(12, 16)>>,
                                             F(16, 20), F(20, 24), mode \div 4096, mode % 512,
                                             F(28, 32), F(32, 36), F(36, 40),
                                             Format040x(Slice(content, idx + 40, idx + 60)),
                                             (flags \div 32768) % 2 # 0,
                                             ((flags \div 4096) % 4) * 4096,
                                             Decode(raw_name))])
        WithNull(mode, flags, name_length, at, null_idx) ==
            WithName(mode, flags, name_length,
                     IF name_length < 4095 THEN Slice(content, at, at + name_length)
                     ELSE Slice(content, at, null_idx),
                     IF name_length < 4095 THEN at + name_length + 1 ELSE null_idx + 1)
        WithFlags(mode, flags) ==
            WithNull(mode, flags, flags % 4096, idx + 62, Find(content, NUL, idx + 62 + 4095))
    IN  IF F(24, 26) # 0 THEN Raise("AssertionError")
        ELSE WithFlags(F(26, 28), F(60, 62))

\* index_read(repo) on the index file f: a GitIndex, NoIndex for None
index_read(f) ==
    LET \* the first pass of the loop returns
        WithOne(version, one) ==
            IF one.exc # "" THEN [exc |-> one.exc, val |-> NoIndex]
            ELSE Ok(GitIndex(version, <<one.val.entry>>))
        WithHeader(header, version, count) ==
            IF Slice(header, 0, 4) # Encode("DIRC") THEN [exc |-> "AssertionError", val |-> NoIndex]
            ELSE IF version # 2 THEN [exc |-> "AssertionError", val |-> NoIndex]
            ELSE IF count = 0 THEN Ok(NoIndex)
            ELSE WithOne(version, index_read_entry(SliceFrom(f, 12), 0))
    IN  IF f = NoFile THEN Ok(GitIndex(2, <<>>))
        ELSE WithHeader(Slice(f, 0, 12), FromBytes(Slice(f, 4, 8)), FromBytes(Slice(f, 8, 12)))
-----------------------------------------------------------------------------
(* gitobject_utils.py: tree_from_index *)

\* the 0-based offset of the last "/" of s, or -1
RFindSlash(s) ==
    LET hits == {i \in 0..(Len(s) - 1) : CharAt(s, i) = "/"}
    IN  IF hits = {} THEN -1 ELSE CHOOSE i \in hits : \A j \in hits : j <= i

RECURSIVE RStripSlash(_)
RStripSlash(s) ==
    IF s # "" /\ CharAt(s, Len(s) - 1) = "/" THEN RStripSlash(Slice(s, 0, Len(s) - 1)) ELSE s

\* os.path.dirname(p) and os.path.basename(p) of posixpath
dirname(p) ==
    LET head == Slice(p, 0, RFindSlash(p) + 1)
    IN  IF head # "" /\ RStripSlash(head) = "" THEN head ELSE RStripSlash(head)

basename(p) == SliceFrom(p, RFindSlash(p) + 1)

\* "{:0<w>o}".format(n)
RECURSIVE OctDigits(_)
OctDigits(n) == IF n < 8 THEN Str(n) ELSE OctDigits(n \div 8) \o Str(n % 8)

Oct(n, w) == Zeros(w - Len(OctDigits(n))) \o OctDigits(n)

\* the `while key != ""` loop: every pass on a key outside contents sets the
\* bucket called "key"
RECURSIVE tfi_ancestors(_, _)
tfi_ancestors(contents, key) ==
    IF key = "" THEN contents
    ELSE tfi_ancestors(IF key \notin DOMAIN contents
                       THEN [k \in DOMAIN contents \cup {"key"} |->
                                IF k = "key" THEN <<>> ELSE contents[k]]
                       ELSE contents,
                       dirname(key))

\* sorted(contents.keys(), key=len, reverse=True); keys of one length keep
\* their insertion order, which the caller gives
RECURSIVE SortByLenDesc(_)
SortByLenDesc(keys) ==
    IF keys = <<>> THEN <<>>
    ELSE LET longest == CHOOSE i \in 1..Len(keys) :
                            /\ \A j \in 1..Len(keys) : Len(keys[j]) <= Len(keys[i])
                            /\ \A j \in 1..(i - 1) : Len(keys[j]) < Len(keys[i])
         IN  <<keys[longest]>>
                \o SortByLenDesc(SubSeq(keys, 1, longest - 1) \o SubSeq(keys, longest + 1, Len(keys)))

IsIndexEntry(x) == "name" \in DOMAIN x

\* the leaves of one bucket, or the exception building one of them raises
RECURSIVE tfi_leaves(_, _)
tfi_leaves(bucket, acc) ==
    IF bucket = <<>> THEN Ok(acc)
    ELSE LET entry == Head(bucket)
         IN  IF IsIndexEntry(entry)
             THEN (IF "mode_perms" \notin DOMAIN entry THEN Raise("AttributeError")
                   ELSE tfi_leaves(Tail(bucket),
                            Append(acc, GitTreeLeaf(Encode(Oct(entry.mode_type, 2) \o Oct(entry.mode_perms, 4)),
                                                    basename(entry.name), entry.sha))))
             ELSE tfi_leaves(Tail(bucket),
                      Append(acc, GitTreeLeaf(Encode("040000"), entry.base, entry.sha)))

\* the `for path in sorted_paths` loop: outcome, object files, trees written
RECURSIVE tfi_write(_, _, _, _)
tfi_write(store, contents, paths, written) ==
    LET WithSha(path, w) ==
            IF w.exc # ""
            THEN [exc |-> w.exc, val |-> None, objects |-> w.objects, written |-> written]
            ELSE tfi_write(w.objects,
                           [contents EXCEPT ![dirname(path)] =
                               Append(@, [base |-> basename(path), sha |-> w.val])],
                           Tail(paths),
                           Append(written, [path |-> path, sha |-> w.val]))
        WithLeaves(path, leaves) ==
            IF leaves.exc # ""
            THEN [exc |-> leaves.exc, val |-> None, objects |-> store, written |-> written]
            ELSE WithSha(path, object_write(store, [cls |-> "GitTree", items |-> leaves.val], TRUE))
    IN  IF paths = <<>> THEN [exc |-> "", val |-> None, objects |-> store, written |-> written]
        ELSE WithLeaves(Head(paths), tfi_leaves(contents[Head(paths)], <<>>))

\* tree_from_index(repo, index): it has no return statement, so val is None
tree_from_index(store, idx) ==
    LET WithContents(entry, dir, contents) ==
            IF dir \notin DOMAIN contents
            THEN [exc |-> "KeyError", val |-> None, objects |-> store, written |-> <<>>]
            ELSE tfi_write(store,
                           [contents EXCEPT ![dir] = Append(@, entry)],
                           SortByLenDesc(IF "key" \in DOMAIN contents THEN <<"", "key">> ELSE <<"">>),
                           <<>>)
        WithDirname(entry, dir) == WithContents(entry, dir, tfi_ancestors([k \in {""} |-> <<>>], dir))
        WithEntry(entry) == WithDirname(entry, dirname(entry.name))
    IN  IF idx = NoIndex
        THEN [exc |-> "AttributeError", val |-> None, objects |-> store, written |-> <<>>]
        ELSE IF idx.entries = <<>>
        THEN [exc |-> "UnboundLocalError", val |-> None, objects |-> store, written |-> <<>>]
        ELSE WithEntry(idx.entries[Len(idx.entries)])
-----------------------------------------------------------------------------
(* utils.py: rm and add *)

\* the files of the worktree, by path relative to it, with what os.stat
\* reports of each
WorkTree ==
    [p \in {"a.txt", "src/b.txt"} |->
        [data  |-> IF p = "a.txt" THEN Encode("a") ELSE Encode("ab"),
         ctime |-> <<5, 6>>, mtime |-> <<7, 8>>, dev |-> 1, ino |-> 2, uid |-> 3, gid |-> 4]]

\* `for e in index.entries` of rm with abspaths empty: every entry is kept,
\* and each pass rewrites the index file with the entries kept so far
RECURSIVE rm_loop(_, _, _, _)
rm_loop(f, version, entries, kept) ==
    LET WithWrite(w) ==
            IF w.exc # "" THEN [exc |-> w.exc, val |-> None, index |-> w.index]
            ELSE rm_loop(w.index, version, Tail(entries), Append(kept, Head(entries)))
    IN  IF entries = <<>> THEN [exc |-> "", val |-> None, index |-> f]
        ELSE WithWrite(index_write(GitIndex(version, Append(kept, Head(entries)))))

\* rm(repo, paths, delete, skip_missing): outcome and index file after it.
\* A non-empty paths fails on abspaths.startswith (a list has no such
\* attribute), so no path is ever matched and os.unlink is never reached
rm(f, paths, delete, skip_missing) ==
    LET WithIndex(idx) ==
            IF idx.exc # "" THEN [exc |-> idx.exc, val |-> None, index |-> f]
            ELSE IF paths # <<>> THEN [exc |-> "AttributeError", val |-> None, index |-> f]
            ELSE IF idx.val = NoIndex THEN [exc |-> "AttributeError", val |-> None, index |-> f]
            ELSE rm_loop(f, idx.val.version, idx.val.entries, <<>>)
    IN  WithIndex(index_read(f))

\* the entries add appends for clean_paths, each blob written on the way
RECURSIVE add_entries(_, _, _)
add_entries(store, clean_paths, acc) ==
    LET WithSha(relpath, st, h) ==
            IF h.exc # "" THEN [exc |-> h.exc, objects |-> h.objects, entries |-> acc]
            ELSE add_entries(h.objects, Tail(clean_paths),
                     Append(acc, GitIndexEntry(st.ctime, <<st.mtime[1], Float(st.mtime[2])>>,
                                               st.dev, st.ino, 8, 420, st.uid, st.gid,
                                               Len(st.data), h.val, FALSE, 0, relpath)))
        WithStat(relpath, st) == WithSha(relpath, st, object_hash(store, st.data, "blob", TRUE))
    IN  IF clean_paths = <<>> THEN [exc |-> "", objects |-> store, entries |-> acc]
        ELSE WithStat(Head(clean_paths), WorkTree[Head(clean_paths)])

\* `for path in paths` of add: each pass reads the index again, appends an
\* entry for every path met so far and writes the index
RECURSIVE add_loop(_, _, _, _)
add_loop(store, f, paths, clean_paths) ==
    LET WithWrite(clean, es, w) ==
            IF w.exc # ""
            THEN [exc |-> w.exc, val |-> None, objects |-> es.objects, index |-> w.index]
            ELSE add_loop(es.objects, w.index, Tail(paths), clean)
        WithEntries(clean, idx, es) ==
            IF idx.val = NoIndex
            THEN \* index.entries.append fails after the first blob
                 [exc |-> "AttributeError", val |-> None,
                  objects |-> add_entries(store, <<Head(clean)>>, <<>>).objects, index |-> f]
            ELSE IF es.exc # ""
            THEN [exc |-> es.exc, val |-> None, objects |-> es.objects, index |-> f]
            ELSE WithWrite(clean, es,
                           index_write(GitIndex(idx.val.version, idx.val.entries \o es.entries)))
        WithIndex(clean, idx) ==
            IF idx.exc # "" THEN [exc |-> idx.exc, val |-> None, objects |-> store, index |-> f]
            ELSE WithEntries(clean, idx, add_entries(store, clean, <<>>))
    IN  IF paths = <<>> THEN [exc |-> "", val |-> None, objects |-> store, index |-> f]
        ELSE IF Head(paths) \notin DOMAIN WorkTree
        THEN [exc |-> "Exception", val |-> None, objects |-> store, index |-> f]
        ELSE WithIndex(Append(clean_paths, Head(paths)), index_read(f))

\* add(repo, paths): outcome, object files and index file after the call
add(store, f, paths) ==
    LET WithRm(r) ==
            IF r.exc # "" THEN [exc |-> r.exc, val |-> None, objects |-> store, index |-> r.index]
            ELSE add_loop(store, r.index, paths, <<>>)
    IN  WithRm(rm(f, paths, FALSE, TRUE))
-----------------------------------------------------------------------------
(* The values the calls of the model are made with *)

EmptyStore == [p \in {} |-> <<>>]

Blob(data) == [cls |-> "GitBlob", blobdata |-> data]

\* the identifier object_write gives obj, "None" when serializing it fails
ShaOf(obj) == object_write(EmptyStore, obj, FALSE).val

BlobPayloads == {Encode("a"), Encode("ab")}

ShaA == ShaOf(Blob(Encode("a")))
ShaAB == ShaOf(Blob(Encode("ab")))

\* tree leaves: a regular file, a directory with the 5-digit mode as
\* tree_parse_one holds it, a symbolic link
LeafFile == GitTreeLeaf(Encode("100644"), "b.txt", ShaA)
LeafDir == GitTreeLeaf(Encode(" 40000"), "a", ShaAB)
LeafLink == GitTreeLeaf(Encode("120000"), "b", ShaAB)
Leaves == {LeafFile, LeafDir, LeafLink}

\* the sequences without repetition of at most n members of S
RECURSIVE Arrangements(_, _)
Arrangements(S, n) ==
    IF n = 0 THEN {<<>>}
    ELSE {<<>>} \cup {<<x>> \o t : x \in S, t \in Arrangements(S, n - 1)}

NoRepeat(q) == \A i, j \in 1..Len(q) : i # j => q[i] # q[j]

Tree(items) == [cls |-> "GitTree", items |-> items]
Trees == {Tree(q) : q \in {a \in Arrangements(Leaves, MaxEntries) : NoRepeat(a)}}

EmptyTreeSha == ShaOf(Tree(<<>>))

TheCommit ==
    [cls  |-> "GitCommit",
     kvlm |-> <<[k |-> "tree", v |-> Encode(EmptyTreeSha)],
                [k |-> "author", v |-> Encode("Wyag <wyag@example.com> 0 -0000")],
                [k |-> "", v |-> Encode("first\n")]>>]

TagOn(sha, type) ==
    [cls  |-> "GitTag",
     kvlm |-> <<[k |-> "object", v |-> Encode(sha)],
                [k |-> "type", v |-> Encode(type)],
                [k |-> "tag", v |-> Encode("v1")],
                [k |-> "", v |-> Encode("release\n")]>>]

TheTag == TagOn(ShaOf(TheCommit), "commit")

\* the objects a caller hands to object_write
Objects == {Blob(d) : d \in BlobPayloads} \cup Trees \cup {TheCommit, TheTag}

\* well-formed payloads of each kind, as object_hash reads them from a file
Payloads ==
    [blob   |-> BlobPayloads,
     tree   |-> {<<>>, Encode("100644 b.txt") \o <<NUL>> \o BytesOfHex(ShaA)},
     commit |-> {kvlm_serialize(TheCommit.kvlm)},
     tag    |-> {kvlm_serialize(TheTag.kvlm)}]

Kinds == {"blob", "tree", "commit", "tag"}

\* index entries as GitIndexEntry builds them
EntryFor(name, sha, assume_valid, stage) ==
    GitIndexEntry(<<1, 2>>, <<3, 4>>, 5, 6, 8, 420, 7, 8, 9, sha, assume_valid, stage, name)

Entries ==
    {EntryFor("a.txt", ShaA, FALSE, 0),
     EntryFor("src/b.txt", ShaAB, TRUE, 4096),
     EntryFor("key/c.txt", ShaAB, FALSE, 0)}

Indexes == {GitIndex(2, q) : q \in {a \in Arrangements(Entries, MaxEntries) : NoRepeat(a)}}

PathLists == {<<>>, <<"a.txt">>, <<"a.txt", "src/b.txt">>, <<"missing.txt">>}

TagNames == {"v1"}
-----------------------------------------------------------------------------
(* The repository under calls of the storing operations *)

\* no call is in progress between the calls of a sequential run
NoProcs == <<>>

NoCall == [op |-> "", args |-> <<>>, exc |-> "", val |-> None, changed |-> {}]

\* the record of a call: its outcome and which of the files it changed
Call(op, args, out, changed) ==
    [op |-> op, args |-> args, exc |-> out.exc, val |-> out.val, changed |-> changed]

Changed(o, r, i) ==
    (IF o # objects THEN {"objects"} ELSE {})
        \cup (IF r # refs THEN {"refs"} ELSE {})
        \cup (IF i # index THEN {"index"} ELSE {})

\* a loose object as git writes it
GitWritten(obj) == ZFastest \o ObjectHeader(ClassFmt[obj.cls], Serialize(obj).val)

\* a repository after repo_create, its object store empty or holding a blob
\* that git has written
Init ==
    /\ objects \in {EmptyStore,
                    (ObjectPath(ShaA) :> GitWritten(Blob(Encode("a"))))}
    /\ refs = ("HEAD" :> "ref: refs/heads/master\n")
    /\ index = NoFile
    /\ ret = NoCall
    /\ prev = NoCall
    /\ calls = 0
    /\ procs = NoProcs

\* prev keeps the call before the last when both are object_write calls
ObjectWrite(obj, repo) ==
    /\ calls < MaxCalls
    /\ \E w \in {object_write(objects, obj, repo)} :
           /\ calls' = calls + 1
           /\ objects' = w.objects
           /\ ret' = Call("object_write", [obj |-> obj, repo |-> repo], w,
                       Changed(w.objects, refs, index))
           /\ prev' = IF ret.op = "object_write" THEN ret ELSE NoCall
           /\ UNCHANGED <<refs, index, procs>>

ObjectHash(data, fmt, repo) ==
    /\ calls < MaxCalls
    /\ \E h \in {object_hash(objects, data, fmt, repo)} :
           /\ calls' = calls + 1
           /\ objects' = h.objects
           /\ ret' = Call("object_hash", [data |-> data, fmt |-> fmt, repo |-> repo], h,
                       Changed(h.objects, refs, index))
           /\ prev' = NoCall
           /\ UNCHANGED <<refs, index, procs>>

TagCreate(name, ref, create_tag_object) ==
    /\ calls < MaxCalls
    /\ \E t \in {tag_create(objects, refs, name, ref, create_tag_object)} :
           /\ calls' = calls + 1
           /\ objects' = t.objects
           /\ refs' = t.refs
           /\ ret' = Call("tag_create",
                          [name |-> name, ref |-> ref, create_tag_object |-> create_tag_object], t,
                          Changed(t.objects, t.refs, index))
           /\ prev' = NoCall
           /\ UNCHANGED <<index, procs>>

IndexWrite(idx) ==
    /\ calls < MaxCalls
    /\ \E w \in {index_write(idx)} :
           /\ calls' = calls + 1
           /\ index' = w.index
           /\ ret' = Call("index_write", [index |-> idx], w, Changed(objects, refs, w.index))
           /\ prev' = NoCall
           /\ UNCHANGED <<objects, refs, procs>>

TreeFromIndex(idx) ==
    /\ calls < MaxCalls
    /\ \E t \in {tree_from_index(objects, idx)} :
           /\ calls' = calls + 1
           /\ objects' = t.objects
           /\ ret' = Call("tree_from_index", [index |-> idx], t, Changed(t.objects, refs, index))
           /\ prev' = NoCall
           /\ UNCHANGED <<refs, index, procs>>

Rm(paths) ==
    /\ calls < MaxCalls
    /\ \E r \in {rm(index, paths, TRUE, FALSE)} :
           /\ calls' = calls + 1
           /\ index' = r.index
           /\ ret' = Call("rm", [paths |-> paths], r, Changed(objects, refs, r.index))
           /\ prev' = NoCall
           /\ UNCHANGED <<objects, refs, procs>>

Add(paths) ==
    /\ calls < MaxCalls
    /\ \E a \in {add(objects, index, paths)} :
           /\ calls' = calls + 1
           /\ objects' = a.objects
           /\ index' = a.index
           /\ ret' = Call("add", [paths |-> paths], a, Changed(a.objects, refs, a.index))
           /\ prev' = NoCall
           /\ UNCHANGED <<refs, procs>>

\* the index a caller hands on: one it built, or the None index_read returns
\* for an index file without entries
IndexArgs == Indexes \cup {NoIndex}

Next ==
    \/ \E obj \in Objects, repo \in BOOLEAN : ObjectWrite(obj, repo)
    \/ \E k \in Kinds \cup {"bogus"}, repo \in BOOLEAN :
          \E data \in (IF k \in Kinds THEN Payloads[k] ELSE {<<>>}) : ObjectHash(data, k, repo)
    \/ \E name \in TagNames, ref \in {"HEAD", ShaA, "v1", "nosuch"}, c \in BOOLEAN :
          TagCreate(name, ref, c)
    \/ \E idx \in IndexArgs : IndexWrite(idx)
    \/ \E idx \in IndexArgs : TreeFromIndex(idx)
    \/ \E paths \in PathLists : Rm(paths)
    \/ \E paths \in PathLists : Add(paths)

Spec == Init /\ [][Next]_vars
-----------------------------------------------------------------------------
(* A repository under queries: name resolution and object lookup *)

BlobAB == Blob(Encode("ab"))
BlobBA == Blob(Encode("ba"))
TagOnTag == TagOn(ShaOf(TheTag), "tag")
MissingSha == ShaOf(Blob(Encode("gone")))
DanglingTag == TagOn(MissingSha, "commit")

FindObjects == {BlobAB, BlobBA, Tree(<<>>), TheCommit, TheTag, TagOnTag, DanglingTag}

\* the object files after object_write of every member of S
RECURSIVE StoreOf(_)
StoreOf(S) ==
    IF S = {} THEN EmptyStore
    ELSE LET o == CHOOSE o \in S : TRUE
         IN  object_write(StoreOf(S \ {o}), o, TRUE).objects

FindStores ==
    {StoreOf(S) : S \in {{}, {BlobAB}, {BlobAB, BlobBA}, {Tree(<<>>), TheCommit, TheTag},
                         {TheTag, TagOnTag, DanglingTag}, FindObjects}}

FreshRefs == ("HEAD" :> "ref: refs/heads/master\n")

\* ref files: after repo_create; with a branch and tags; with HEAD detached
FindRefs ==
    {FreshRefs,
     FreshRefs @@ ("refs/heads/master" :> (ShaOf(TheCommit) \o "\n"))
               @@ ("refs/tags/v1" :> (ShaOf(TheTag) \o "\n"))
               @@ ("refs/tags/ABCD" :> (ShaOf(BlobAB) \o "\n"))
               @@ ("refs/tags/master" :> (ShaOf(TheTag) \o "\n")),
     ("HEAD" :> (ShaOf(TheCommit) \o "\n"))
               @@ ("refs/tags/v2" :> (ShaOf(TagOnTag) \o "\n"))
               @@ ("refs/tags/dangling" :> (ShaOf(DanglingTag) \o "\n"))
               @@ ("refs/tags/gone" :> (MissingSha \o "\n"))}

FindNames ==
    {"HEAD", "", " ", "v1", "v2", "dangling", "gone", "master", "ABCD", "nosuch",
     Slice(ShaOf(BlobAB), 0, 4), Slice(ShaOf(TheCommit), 0, 6), "1CB8"}
        \cup {ShaOf(o) : o \in FindObjects}

InitFind ==
    /\ objects \in FindStores
    /\ refs \in FindRefs
    /\ index = NoFile
    /\ ret = NoCall
    /\ prev = NoCall
    /\ calls = 0
    /\ procs = NoProcs

\* a query changes no file, so one query per run shows every outcome
RefResolve(ref) ==
    /\ calls = 0
    /\ calls' = 1
    /\ ret' = Call("ref_resolve", [ref |-> ref], ref_resolve(refs, ref), {})
    /\ UNCHANGED <<objects, refs, index, prev, procs>>

ObjectResolve(name) ==
    /\ calls = 0
    /\ calls' = 1
    /\ ret' = Call("object_resolve", [name |-> name], object_resolve(objects, refs, name), {})
    /\ UNCHANGED <<objects, refs, index, prev, procs>>

ObjectRead(sha) ==
    /\ calls = 0
    /\ calls' = 1
    /\ ret' = Call("object_read", [sha |-> sha], object_read(objects, sha), {})
    /\ UNCHANGED <<objects, refs, index, prev, procs>>

ObjectFind(name, fmt, follow) ==
    /\ calls = 0
    /\ calls' = 1
    /\ ret' = Call("object_find", [name |-> name, fmt |-> fmt, follow |-> follow],
                   object_find(objects, refs, name, fmt, follow), {})
    /\ UNCHANGED <<objects, refs, index, prev, procs>>

NextFind ==
    \/ \E ref \in {"HEAD", "refs/heads/master", "refs/tags/v1", "refs/tags/nosuch"} : RefResolve(ref)
    \/ \E name \in FindNames : ObjectResolve(name)
    \/ \E sha \in {ShaOf(o) : o \in FindObjects} \cup {None, MissingSha} : ObjectRead(sha)
    \/ \E name \in FindNames, fmt \in Kinds \cup {""}, follow \in BOOLEAN : ObjectFind(name, fmt, follow)

SpecFind == InitFind /\ [][NextFind]_vars
-----------------------------------------------------------------------------
(* Claims on the storing operations, under Spec *)

\* C1: when object_hash has built an object of kind fmt from a well-formed
\* payload and written it to the repository, the call succeeded and
\* object_read of the returned identifier yields an object of that kind
\* equal to the payload decoded.
C1_WriteThenReadYieldsObject ==
    (ret.op = "object_hash" /\ ret.args.fmt \in Kinds /\ ret.args.repo) =>
        LET cls   == CHOOSE c \in Classes : ClassFmt[c] = ret.args.fmt
            built == GitObject(cls, ret.args.data)
        IN  /\ ret.exc = ""
            /\ built.exc = ""
            /\ object_read(objects, ret.val) = Ok(built.val)

\* C2: the second of two object_write calls with the same object on the same
\* repository returns the identifier the first returned, raises no error and
\* leaves the object files as the first call left them.
C2_SecondWriteIsIdempotent ==
    (ret.op = "object_write" /\ prev.op = "object_write"
        /\ ret.args = prev.args /\ ret.args.repo) =>
        /\ prev.exc = ""
        /\ ret.exc = ""
        /\ ret.val = prev.val
        /\ ret.val # None
        /\ ret.changed = {}

\* C3: an object file, once present, stays present with the bytes it has,
\* whatever call is made.
C3_ObjectFilesAreImmutable ==
    [][\A p \in DOMAIN objects : p \in DOMAIN objects' /\ objects'[p] = objects[p]]_vars

\* object_write has been called for an object git had already stored, and
\* the file still holds git's bytes
C3_Witness ==
    /\ ret.op = "object_write"
    /\ ret.args.repo
    /\ ret.exc = ""
    /\ ObjectPath(ret.val) \in DOMAIN objects
    /\ objects[ObjectPath(ret.val)] = GitWritten(ret.args.obj)

\* the insertion orders of the members of a sequence
InsertionOrders(q) ==
    {p \in Arrangements({q[i] : i \in 1..Len(q)}, Len(q)) : Len(p) = Len(q) /\ NoRepeat(p)}

\* C8: a tree serializes to the same bytes, and object_write returns the same
\* identifier, whatever the order its entries were inserted in.
C8_TreeBytesIgnoreInsertionOrder ==
    (ret.op = "object_write" /\ ret.args.obj.cls = "GitTree") =>
        \A p \in InsertionOrders(ret.args.obj.items) :
            /\ Serialize(Tree(p)).exc = ""
            /\ Serialize(Tree(p)) = Serialize(ret.args.obj)
            /\ ret.exc = ""
            /\ object_write(objects, Tree(p), ret.args.repo).val = ret.val

\* C9: building an object of the same kind from o.serialize() succeeds and
\* gives an object equal to o, for each of the four kinds.
C9_DecodeOfEncodeIsIdentity ==
    (ret.op = "object_write") =>
        LET o    == ret.args.obj
            data == Serialize(o)
        IN  /\ data.exc = ""
            /\ GitObject(o.cls, data.val) = Ok(o)

\* C10: index_read after index_write of a version 2 index, whose names are
\* shorter than 0xFFF bytes, returns an index with the same version and the
\* same entries in the same order.
C10_IndexReadOfIndexWrite ==
    (ret.op = "index_write" /\ ret.args.index \in Indexes) =>
        /\ ret.exc = ""
        /\ index_read(index) = Ok(ret.args.index)

-----------------------------------------------------------------------------
(* Claims on name resolution and lookup, under SpecFind *)

\* the identifier a stored object file is kept under
IdOfPath(p) == Slice(p, Len(p) - 41, Len(p) - 39) \o SliceFrom(p, Len(p) - 38)

StoredIds == {IdOfPath(p) : p \in DOMAIN objects}

IsStored(sha) == sha \in StoredIds

\* the object that was written under sha, and its kind
StoredObject(sha) == CHOOSE o \in FindObjects : ShaOf(o) = sha
KindOf(sha) == ClassFmt[StoredObject(sha).cls]
FieldOf(sha, key) == Decode(KvlmGet(StoredObject(sha).kvlm, key))

RefTarget(ref) == ref_resolve(refs, ref)

\* the candidates of rules (b), (c) and (d) for a name, each rule with the
\* name as given; rule (b) compares hex digits without regard to case
PooledCandidates(name) ==
    (IF hashRE(name)
     THEN SeqOfSet({id \in StoredIds : StartsWith(id, Lower(name))})
     ELSE <<>>)
    \o (IF RefTarget("refs/tags/" \o name).val \notin {None, ""}
        THEN <<RefTarget("refs/tags/" \o name).val>> ELSE <<>>)
    \o (IF RefTarget("refs/heads/" \o name).val \notin {None, ""}
        THEN <<RefTarget("refs/heads/" \o name).val>> ELSE <<>>)

\* C4: for every name other than HEAD the candidates are the stored objects
\* whose identifier starts with the name (a name of 4 to 40 hex digits), the
\* target of refs/tags/<name> and the target of refs/heads/<name>;
\* object_find fails with NotFound for none, returns the only one, and fails
\* with Ambiguous naming all of them for several
C4_FindPoolsTheCandidates ==
    (ret.op = "object_find" /\ ret.args.name # "HEAD" /\ ret.args.fmt = "") =>
        LET c == PooledCandidates(ret.args.name)
        IN  /\ Len(c) = 0 => ret.exc = "NoSuchReference"
            /\ Len(c) = 1 => ret.exc = "" /\ ret.val = c[1]
            /\ Len(c) > 1 => ret.exc = "Ambiguous" /\ ret.val = c

\* HEAD holds an indirection to a branch whose ref file does not exist
FreshHead ==
    /\ "HEAD" \in DOMAIN refs
    /\ StartsWith(refs["HEAD"], "ref: refs/heads/")
    /\ Slice(refs["HEAD"], 5, -1) \notin DOMAIN refs

\* C5: on a fresh repository reading the ref HEAD raises no error, and
\* resolving the name HEAD reports NotFound: object_resolve yields no
\* identifier and no candidate, object_find fails with NotFound
C5_FreshHeadIsNotFound ==
    FreshHead =>
        /\ (ret.op = "ref_resolve" /\ ret.args.ref = "HEAD") => ret.exc = ""
        /\ (ret.op = "object_resolve" /\ ret.args.name = "HEAD") =>
               ret.exc = "" /\ (ret.val.none \/ ret.val.list = <<>>)
        /\ (ret.op = "object_find" /\ ret.args.name = "HEAD") => ret.exc = "NoSuchReference"

\* the one candidate the name of the last object_find resolves to, or None
ResolvedId ==
    LET r == object_resolve(objects, refs, ret.args.name)
    IN  IF r.exc = "" /\ ~r.val.none /\ Len(r.val.list) = 1 THEN r.val.list[1] ELSE None

\* where the redirection rules lead from sha: through a tag's object field,
\* and through a commit's tree field when a tree is expected
RECURSIVE Reached(_, _, _)
Reached(sha, fmt, follow) ==
    IF ~IsStored(sha) THEN sha
    ELSE IF KindOf(sha) = fmt \/ ~follow THEN sha
    ELSE IF KindOf(sha) = "tag" THEN Reached(FieldOf(sha, "object"), fmt, follow)
    ELSE IF KindOf(sha) = "commit" /\ fmt = "tree" THEN Reached(FieldOf(sha, "tree"), fmt, follow)
    ELSE sha

\* C6: when the name resolves to a tag whose object field leads through
\* tags to a commit, object_find with follow returns the commit's tree field
\* for expected type tree and the commit's identifier for expected type commit
C6_FindFollowsTagToCommitToTree ==
    (/\ ret.op = "object_find" /\ ret.args.follow /\ ret.args.fmt \in {"tree", "commit"}
     /\ IsStored(ResolvedId) /\ KindOf(ResolvedId) = "tag"
     /\ IsStored(Reached(ResolvedId, "commit", TRUE))
     /\ KindOf(Reached(ResolvedId, "commit", TRUE)) = "commit"
     /\ IsStored(FieldOf(Reached(ResolvedId, "commit", TRUE), "tree"))) =>
        LET commit == Reached(ResolvedId, "commit", TRUE)
        IN  /\ ret.exc = ""
            /\ ret.val = (IF ret.args.fmt = "commit" THEN commit ELSE FieldOf(commit, "tree"))

\* C7: object_find with an expected type fails with NotFound, as for an
\* unresolvable name, when the rules stop at an object of another type (no
\* follow; a blob or tree; a commit with neither commit nor tree expected)
\* or at an identifier absent from the store
C7_FindMismatchIsNotFound ==
    (/\ ret.op = "object_find" /\ ret.args.fmt # ""
     /\ IsStored(ResolvedId)
     /\ LET r == Reached(ResolvedId, ret.args.fmt, ret.args.follow)
        IN  ~IsStored(r) \/ KindOf(r) # ret.args.fmt) =>
        ret.exc = "NoSuchReference"

-----------------------------------------------------------------------------
(* Claims on tree_from_index, under Spec *)

\* a directory and the directories above it, the root "" included
RECURSIVE Ancestors(_)
Ancestors(d) == IF d = "" THEN {""} ELSE {d} \cup Ancestors(dirname(d))

\* the directories that hold a staged entry or lie above one
DirsOf(idx) ==
    {""} \cup UNION {Ancestors(dirname(idx.entries[i].name)) : i \in 1..Len(idx.entries)}

FilesIn(idx, d) == {i \in 1..Len(idx.entries) : dirname(idx.entries[i].name) = d}
ChildDirs(idx, d) == {c \in DirsOf(idx) : c # "" /\ dirname(c) = d}

\* the entries of the tree object kept in file p of the store
LeavesAt(store, p) ==
    LET WithRaw(raw) == tree_parse(SliceFrom(raw, Find(raw, NUL, 0) + 1))
        WithFile(z) ==
            IF z.exc # "" \/ ~StartsWith(z.val, Encode("tree ")) THEN Raise("Exception")
            ELSE WithRaw(z.val)
    IN  WithFile(zlib_decompress(store[p]))

DirModes == {Encode("040000"), Encode(" 40000")}

\* file p holds the tree of directory d: one file entry per entry staged
\* directly in d, one directory entry per child directory, which names the
\* tree t gives that child
HoldsTreeOf(store, p, idx, d, t) ==
    LET WithLeaves(l) ==
            /\ l.exc = ""
            /\ Len(l.val) = Cardinality(FilesIn(idx, d)) + Cardinality(ChildDirs(idx, d))
            /\ \A i \in FilesIn(idx, d) :
                  \E k \in 1..Len(l.val) :
                      /\ l.val[k].path = basename(idx.entries[i].name)
                      /\ l.val[k].sha = idx.entries[i].sha
                      /\ l.val[k].mode \notin DirModes
            /\ \A c \in ChildDirs(idx, d) :
                  \E k \in 1..Len(l.val) :
                      /\ l.val[k].path = basename(c)
                      /\ l.val[k].sha = IdOfPath(t[c])
                      /\ l.val[k].mode \in DirModes
    IN  WithLeaves(LeavesAt(store, p))

\* the assignments of a tree file of the store to every directory of idx
TreesOf(store, idx) ==
    {t \in [DirsOf(idx) -> DOMAIN store] :
        \A d \in DirsOf(idx) : HoldsTreeOf(store, t[d], idx, d, t)}

\* C11: a call of tree_from_index on an index succeeds; afterwards every
\* directory that holds a staged entry or lies above one (the root included)
\* has its tree in the store, holding one file entry per file staged directly
\* in it and one directory entry per child directory, and the call has
\* written no object file besides these trees (two trees, root and src, for
\* src/b.txt and a.txt).
C11_OneTreePerDirectory ==
    [][(ret'.op = "tree_from_index" /\ ret'.args.index \in Indexes) =>
          /\ ret'.exc = ""
          /\ \E t \in TreesOf(objects', ret'.args.index) :
                (DOMAIN objects' \ DOMAIN objects) \subseteq {t[d] : d \in DirsOf(ret'.args.index)}]_vars

\* C12: a call of tree_from_index on an index returns the identifier of the
\* root tree, and the object file of that identifier is in the store when
\* the call returns.
C12_ReturnsStoredRootTree ==
    (ret.op = "tree_from_index" /\ ret.args.index \in Indexes) =>
        /\ ret.exc = ""
        /\ ret.val # None
        /\ ObjectPath(ret.val) \in DOMAIN objects
        /\ \E t \in TreesOf(objects, ret.args.index) : t[""] = ObjectPath(ret.val)

-----------------------------------------------------------------------------
(* Processes racing on one object file: object_write and object_read, one  *)
(* file-system operation per step                                           *)

Writers == {"w1", "w2"}
Readers == {"r"}

\* the blobs the racing processes work on
RaceObjects == {Blob(d) : d \in BlobPayloads}

\* "<fmt> <len>\0<data>" of an object that serializes
ResultOf(obj) == ObjectHeader(ClassFmt[obj.cls], Serialize(obj).val)

\* the store is empty, or git has already written one of the blobs
RaceStores == {EmptyStore} \cup {(ObjectPath(ShaOf(o)) :> GitWritten(o)) : o \in RaceObjects}

Proc(obj) == [pc |-> "start", obj |-> obj, exc |-> "", val |-> None]

InitRace ==
    /\ objects \in RaceStores
    /\ refs = ("HEAD" :> "ref: refs/heads/master\n")
    /\ index = NoFile
    /\ ret = NoCall
    /\ prev = NoCall
    /\ calls = 0
    /\ \E obj \in RaceObjects : procs = [p \in Writers \cup Readers |-> Proc(obj)]

\* object_write up to `if not os.path.exists(path)`
WriteExists(p) ==
    /\ procs[p].pc = "start"
    /\ procs' = [procs EXCEPT ![p] =
                    IF ObjectPath(ShaOf(@.obj)) \in DOMAIN objects
                    THEN [@ EXCEPT !.pc = "done", !.val = ShaOf(procs[p].obj)]
                    ELSE [@ EXCEPT !.pc = "open"]]
    /\ UNCHANGED <<objects, refs, index, ret, prev, calls>>

\* open(path, 'wb'): the file exists from here on, and is empty
WriteOpen(p) ==
    /\ procs[p].pc = "open"
    /\ objects' = [q \in DOMAIN objects \cup {ObjectPath(ShaOf(procs[p].obj))} |->
                      IF q = ObjectPath(ShaOf(procs[p].obj)) THEN <<>> ELSE objects[q]]
    /\ procs' = [procs EXCEPT ![p].pc = "write"]
    /\ UNCHANGED <<refs, index, ret, prev, calls>>

\* f.write(zlib.compress(result)) and the end of the `with`, which flushes
\* the bytes at the handle's offset 0; then `return sha`
WriteClose(p) ==
    /\ procs[p].pc = "write"
    /\ objects' = [objects EXCEPT ![ObjectPath(ShaOf(procs[p].obj))] =
                      zlib_compress(ResultOf(procs[p].obj))]
    /\ procs' = [procs EXCEPT ![p] = [@ EXCEPT !.pc = "done", !.val = ShaOf(procs[p].obj)]]
    /\ UNCHANGED <<refs, index, ret, prev, calls>>

\* object_read up to `if not os.path.isfile(path): return None`
ReadIsFile(p) ==
    /\ procs[p].pc = "start"
    /\ procs' = [procs EXCEPT ![p] =
                    IF ObjectPath(ShaOf(@.obj)) \in DOMAIN objects
                    THEN [@ EXCEPT !.pc = "read"]
                    ELSE [@ EXCEPT !.pc = "done", !.val = NoObject]]
    /\ UNCHANGED <<objects, refs, index, ret, prev, calls>>

\* f.read() and the decoding of what it returned
ReadFile(p) ==
    /\ procs[p].pc = "read"
    /\ \E o \in {object_read(objects, ShaOf(procs[p].obj))} :
           procs' = [procs EXCEPT ![p] = [@ EXCEPT !.pc = "done", !.exc = o.exc, !.val = o.val]]
    /\ UNCHANGED <<objects, refs, index, ret, prev, calls>>

NextRace ==
    \/ \E p \in Writers : WriteExists(p)
    \/ \E p \in Writers : WriteOpen(p)
    \/ \E p \in Writers : WriteClose(p)
    \/ \E p \in Readers : ReadIsFile(p)
    \/ \E p \in Readers : ReadFile(p)

SpecRace == InitRace /\ [][NextRace]_vars

\* C13: under every interleaving of two object_write calls for one object
\* and an object_read of its identifier, no finished call has raised, both
\* writers return the object's identifier, a reader that found the file
\* returns the complete object, and when all have finished the file
\* decompresses to the object's encoding.
C13_RacingWritesAreSafe ==
    /\ \A p \in Writers :
          procs[p].pc = "done" => procs[p].exc = "" /\ procs[p].val = ShaOf(procs[p].obj)
    /\ \A p \in Readers :
          procs[p].pc = "done" =>
              /\ procs[p].exc = ""
              /\ procs[p].val \in {NoObject, procs[p].obj}
    /\ (\A p \in Writers \cup Readers : procs[p].pc = "done") =>
          \A p \in Writers :
              zlib_decompress(objects[ObjectPath(ShaOf(procs[p].obj))]) = Ok(ResultOf(procs[p].obj))

-----------------------------------------------------------------------------
(* Claims on failing calls, under Spec *)

CoreOps == {"object_write", "index_write", "tree_from_index", "rm", "add"}

\* C14: when a call of object_write, index_write, tree_from_index, rm or add
\* raises, the object files, the index file and the ref files are what they
\* were before the call.
C14_FailedCallChangesNothing ==
    (ret.op \in CoreOps /\ ret.exc # "") => ret.changed = {}

-----------------------------------------------------------------------------
(* A run of tree_from_index, one pass of its `for path in sorted_paths`    *)
(* loop per step                                                           *)

\* the stores a run starts from: empty, or holding one object
TreeStores ==
    {EmptyStore, (ObjectPath(ShaA) :> GitWritten(Blob(Encode("a"))))}
        \cup {object_write(EmptyStore, o, TRUE).objects :
                 o \in {Blob(Encode("ab")), Tree(<<>>), TheCommit, TheTag}}

\* the locals of the run: the buckets, the paths the loop has yet to visit,
\* and the trees written so far, each with the bucket it was built from
TfiProc(idx) ==
    [pc |-> "start", idx |-> idx, contents |-> [k \in {""} |-> <<>>], paths |-> <<>>,
     written |-> <<>>, exc |-> "", val |-> None]

InitTree ==
    /\ objects \in TreeStores
    /\ refs = ("HEAD" :> "ref: refs/heads/master\n")
    /\ index = NoFile
    /\ ret = NoCall
    /\ prev = NoCall
    /\ calls = 0
    /\ \E idx \in IndexArgs : procs = [p \in {"t"} |-> TfiProc(idx)]

TfiFail(p, e) == [procs EXCEPT ![p] = [@ EXCEPT !.pc = "done", !.exc = e]]

\* the statements before the loop: the buckets and sorted_paths
TfiBuckets(p) ==
    /\ procs[p].pc = "start"
    /\ \E idx \in {procs[p].idx} :
          procs' =
              IF idx = NoIndex THEN TfiFail(p, "AttributeError")
              ELSE IF idx.entries = <<>> THEN TfiFail(p, "UnboundLocalError")
              ELSE LET entry == idx.entries[Len(idx.entries)]
                       dir == dirname(entry.name)
                       contents == tfi_ancestors(procs[p].contents, dir)
                   IN  IF dir \notin DOMAIN contents THEN TfiFail(p, "KeyError")
                       ELSE [procs EXCEPT ![p] =
                                [@ EXCEPT !.pc = "loop",
                                          !.contents = [contents EXCEPT ![dir] = Append(@, entry)],
                                          !.paths = SortByLenDesc(IF "key" \in DOMAIN contents
                                                                  THEN <<"", "key">> ELSE <<"">>)]]
    /\ UNCHANGED <<objects, refs, index, ret, prev, calls>>

\* one pass of the loop: build the tree of the next path, write it, register
\* it with its parent; after the last pass the function ends without a
\* return statement
TfiPass(p) ==
    /\ procs[p].pc = "loop"
    /\ \E path \in {IF procs[p].paths = <<>> THEN "" ELSE Head(procs[p].paths)} :
       \E leaves \in {tfi_leaves(procs[p].contents[path], <<>>)} :
       \E w \in {IF leaves.exc # "" THEN [exc |-> leaves.exc, val |-> None, objects |-> objects]
                 ELSE object_write(objects, [cls |-> "GitTree", items |-> leaves.val], TRUE)} :
          IF procs[p].paths = <<>>
          THEN /\ procs' = [procs EXCEPT ![p] = [@ EXCEPT !.pc = "done"]]
               /\ UNCHANGED objects
          ELSE IF w.exc # ""
          THEN /\ procs' = TfiFail(p, w.exc)
               /\ objects' = w.objects
          ELSE /\ objects' = w.objects
               /\ procs' = [procs EXCEPT ![p] =
                               [@ EXCEPT !.paths = Tail(@),
                                         !.written = Append(@, [path |-> path, sha |-> w.val,
                                                                bucket |-> procs[p].contents[path]]),
                                         !.contents = [procs[p].contents EXCEPT ![dirname(path)] =
                                                          Append(@, [base |-> basename(path),
                                                                     sha |-> w.val])]]]
    /\ UNCHANGED <<refs, index, ret, prev, calls>>

NextTree ==
    \/ \E p \in {"t"} : TfiBuckets(p)
    \/ \E p \in {"t"} : TfiPass(p)

SpecTree == InitTree /\ [][NextTree]_vars

-----------------------------------------------------------------------------
(* Claims on the order of a tree's entries, under Spec *)

\* the sort key of an entry: the path, with "/" appended for a directory
PathKey(leaf) == IF leaf.mode \in DirModes THEN leaf.path \o "/" ELSE leaf.path

\* C16: the order in which tree_serializer takes the entries of a tree for
\* emission is ascending in the key that is the bare path for a regular
\* file, a symbolic link or a gitlink and the path followed by "/" for a
\* directory.
C16_EntriesAscendByPathKey ==
    (ret.op = "object_write" /\ ret.args.obj.cls = "GitTree") =>
        LET sorted == SortLeaves(ret.args.obj.items)
        IN  \A i, j \in 1..Len(sorted) :
                i < j => ~StrLess(PathKey(sorted[j]), PathKey(sorted[i]))

-----------------------------------------------------------------------------
(* Claims on the rules of object_resolve, under SpecFind *)

\* the identifiers a list of candidates holds
Listed(list) == {list[i] : i \in 1..Len(list)}

\* C17: for every name other than HEAD and the blank names, a name of 4 to
\* 40 hex digits with upper-case letters included, object_resolve lists the
\* target of refs/tags/<name> and the target of refs/heads/<name> for the
\* name as the caller gave it, whenever that ref resolves, and lists nothing
\* besides these two and the stored identifiers the name is a prefix of.
C17_RefRulesTakeNameAsGiven ==
    (ret.op = "object_resolve" /\ ret.args.name # "HEAD" /\ StripStr(ret.args.name) # "") =>
        LET name == ret.args.name
            tag == RefTarget("refs/tags/" \o name).val
            branch == RefTarget("refs/heads/" \o name).val
            refTargets == {tag, branch} \ {None, ""}
        IN  /\ ret.exc = ""
            /\ ~ret.val.none
            /\ refTargets \subseteq Listed(ret.val.list)
            /\ Listed(ret.val.list) \subseteq
                  refTargets \cup (IF hashRE(name)
                                   THEN {id \in StoredIds : StartsWith(id, Lower(name))}
                                   ELSE {})

-----------------------------------------------------------------------------
(* Claims on the index file, under Spec *)

\* the bytes one entry takes in the index file: 62, the name, a NUL, and
\* zero bytes up to a multiple of 8
EntrySize(e) == 8 * ((62 + Len(Encode(e.name)) + 1 + 7) \div 8)

\* the offset in the index file of entry i
RECURSIVE EntryOffset(_, _)
EntryOffset(entries, i) ==
    IF i = 1 THEN 12 ELSE EntryOffset(entries, i - 1) + EntrySize(entries[i - 1])

\* the flags word of an entry: assume-valid in bit 15, bit 14 clear, the
\* merge stage in bits 13-12 (where flag_stage holds it), and in bits 11-0
\* the name's byte length or 0xFFF for a longer name
FlagsOf(e) ==
    (IF e.flag_assume_valid THEN 32768 ELSE 0)
        + 4096 * ((e.flag_stage \div 4096) % 4)
        + Min(Len(Encode(e.name)), 4095)

\* C18: index_write succeeds, and the two bytes it writes at offset 60 of
\* every entry are that entry's flags word.
C18_FlagsWordOfEveryEntry ==
    (ret.op = "index_write" /\ ret.args.index \in Indexes) =>
        /\ ret.exc = ""
        /\ \A i \in 1..Len(ret.args.index.entries) :
              LET at == EntryOffset(ret.args.index.entries, i) + 60
              IN  /\ Len(index) >= at + 2
                  /\ FromBytes(Slice(index, at, at + 2)) = FlagsOf(ret.args.index.entries[i])

-----------------------------------------------------------------------------
(* tree_parse on tree payloads, whole and cut short *)

\* one entry as git writes it: mode, space, path, NUL, 20 bytes of identifier
EntryBytes(mode, path, sha) == Encode(mode) \o <<SP>> \o Encode(path) \o <<NUL>> \o BytesOfHex(sha)

WholeTrees ==
    {EntryBytes("100644", "b.txt", ShaA) \o EntryBytes("40000", "a", ShaAB),
     EntryBytes("120000", "b", ShaAB) \o EntryBytes("100644", "b.txt", ShaA)}

\* every payload of WholeTrees and every prefix of one
TreePayloads == UNION {{SubSeq(t, 1, n) : n \in 0..Len(t)} : t \in WholeTrees}

InitParse ==
    /\ objects = EmptyStore
    /\ refs = ("HEAD" :> "ref: refs/heads/master\n")
    /\ index = NoFile
    /\ ret = NoCall
    /\ prev = NoCall
    /\ calls = 0
    /\ procs = NoProcs

TreeParse(raw) ==
    /\ calls = 0
    /\ calls' = 1
    /\ ret' = Call("tree_parse", [raw |-> raw], tree_parse(raw), {})
    /\ UNCHANGED <<objects, refs, index, prev, procs>>

NextParse == \E raw \in TreePayloads : TreeParse(raw)

SpecParse == InitParse /\ [][NextParse]_vars

\* an entry of the payload, reading entries from offset pos on, has fewer
\* than 20 bytes after the NUL that ends its path
RECURSIVE TruncatedFrom(_, _)
TruncatedFrom(raw, pos) ==
    LET WithY(y) ==
            IF y < 0 THEN FALSE
            ELSE IF Len(raw) - (y + 1) < 20 THEN TRUE
            ELSE TruncatedFrom(raw, y + 21)
        WithX(x) == IF x < 0 THEN FALSE ELSE WithY(Find(raw, NUL, x))
    IN  IF pos >= Len(raw) THEN FALSE ELSE WithX(Find(raw, SP, pos))

\* C19: tree_parse of a payload in which fewer than 20 bytes follow the NUL
\* of an entry's path fails; it returns no entries for such a payload.
C19_TruncatedTreeFails ==
    (ret.op = "tree_parse" /\ TruncatedFrom(ret.args.raw, 0)) => ret.exc # ""

-----------------------------------------------------------------------------
(* ref_resolve on every configuration of three ref files *)

RefFiles == {"HEAD", "refs/heads/a", "refs/heads/b"}

\* what a ref file holds: an identifier or an indirection marker; Absent
\* stands for no file
Absent == "absent"
RefContents == {ShaOf(TheCommit) \o "\n"} \cup {"ref: " \o f \o "\n" : f \in RefFiles}

RefConfigs ==
    {[f \in {g \in RefFiles : c[g] # Absent} |-> c[f]] :
        c \in [RefFiles -> RefContents \cup {Absent}]}

InitRefs ==
    /\ objects = EmptyStore
    /\ refs \in RefConfigs
    /\ index = NoFile
    /\ ret = NoCall
    /\ prev = NoCall
    /\ calls = 0
    /\ procs = NoProcs

NextRefs == \E ref \in RefFiles : RefResolve(ref)

SpecRefs == InitRefs /\ [][NextRefs]_vars

\* C20: on every configuration of ref files, one with a cycle of
\* indirections included, ref_resolve returns: either the identifier at the
\* end of the chain or None for no target.
C20_RefResolveReturns ==
    (ret.op = "ref_resolve") =>
        /\ ret.exc = ""
        /\ ret.val = None \/ (Len(ret.val) = 40 /\ IsHex(ret.val))

-----------------------------------------------------------------------------
(* libwyag.py: cmd_commit, on repositories with HEAD attached and detached *)

\* commit_create(repo, tree, parent, author, timestamp, message): a commit
\* naming the root tree and, when there is one, the parent, written to the
\* object store; its identifier is the result. Without a tree identifier no
\* commit is made. Author and timestamp are one fixed value here
commit_create(store, tree, parent, message) ==
    IF tree = None THEN [exc |-> "TypeError", val |-> None, objects |-> store]
    ELSE object_write(store,
             [cls  |-> "GitCommit",
              kvlm |-> <<[k |-> "tree", v |-> Encode(tree)]>>
                       \o (IF parent # None THEN <<[k |-> "parent", v |-> Encode(parent)]>> ELSE <<>>)
                       \o <<[k |-> "author", v |-> Encode("Wyag <wyag@example.com> 0 -0000")],
                            [k |-> "committer", v |-> Encode("Wyag <wyag@example.com> 0 -0000")],
                            [k |-> "", v |-> Encode(message)]>>],
             TRUE)

\* branch_get_active(repo): the branch HEAD names, FALSE when HEAD names none
branch_get_active(rf) ==
    IF "HEAD" \notin DOMAIN rf THEN Raise("FileNotFoundError")
    ELSE IF StartsWith(rf["HEAD"], "ref: refs/heads/") THEN Ok(Slice(rf["HEAD"], 16, -1))
    ELSE Ok(FALSE)

\* cmd_commit(args): outcome, the commit it created, object files and ref
\* files after the call. The detached branch writes "\n" alone to HEAD
cmd_commit(store, rf, f, message) ==
    LET Failed(e, objs) ==
            [exc |-> e, val |-> None, commit |-> None, objects |-> objs, refs |-> rf]
        WithBranch(c, active_branch) ==
            IF active_branch.exc # "" THEN Failed(active_branch.exc, c.objects)
            ELSE [exc |-> "", val |-> None, commit |-> c.val, objects |-> c.objects,
                  refs |-> IF active_branch.val # FALSE
                           THEN (repo_file(<<"refs/heads/" \o active_branch.val>>) :> (c.val \o "\n")) @@ rf
                           ELSE ("HEAD" :> "\n") @@ rf]
        WithCommit(c) ==
            IF c.exc # "" THEN Failed(c.exc, c.objects)
            ELSE WithBranch(c, branch_get_active(rf))
        WithParent(t, parent) ==
            IF parent.exc # "" THEN Failed(parent.exc, t.objects)
            ELSE WithCommit(commit_create(t.objects, t.val, parent.val, message))
        WithTree(t) ==
            IF t.exc # "" THEN Failed(t.exc, t.objects)
            ELSE WithParent(t, object_find(t.objects, rf, "HEAD", "", TRUE))
        WithIndex(idx) ==
            IF idx.exc # "" THEN Failed(idx.exc, store)
            ELSE WithTree(tree_from_index(store, idx.val))
    IN  WithIndex(index_read(f))

\* an index file as git writes it: header, then per entry 62 bytes of
\* fields, the name, a NUL and the padding to a multiple of eight
RECURSIVE GitIndexBody(_, _)
GitIndexBody(staged, acc) ==
    IF staged = <<>> THEN acc
    ELSE LET e == Head(staged)
             one == EntryTimes(e) \o ToBytes(33188, 4).val
                       \o ToBytes(e.uid, 4).val \o ToBytes(e.gid, 4).val \o ToBytes(e.fsize, 4).val
                       \o BytesOfHex(e.sha) \o ToBytes(Len(Encode(e.name)), 2).val
                       \o Encode(e.name) \o <<0>>
             end == Len(acc) + Len(one)
         IN  GitIndexBody(Tail(staged),
                          acc \o one \o [i \in 1..(IF end % 8 # 0 THEN 8 - (end % 8) ELSE 0) |-> 0])

GitIndexFile(staged) ==
    Encode("DIRC") \o ToBytes(2, 4).val \o ToBytes(Len(staged), 4).val \o GitIndexBody(staged, <<>>)

\* index files: none, those git wrote, those index_write has left
IndexFiles ==
    {NoFile}
        \cup {GitIndexFile(idx.entries) : idx \in {i \in Indexes : i.entries # <<>>}}
        \cup {index_write(idx).index : idx \in IndexArgs}

CommitStore == StoreOf({Tree(<<>>), TheCommit})

\* repositories: fresh; with a commit on master; with HEAD detached at it
CommitRepos ==
    {[objects |-> EmptyStore, refs |-> FreshRefs],
     [objects |-> StoreOf({BlobAB}), refs |-> FreshRefs],
     [objects |-> CommitStore,
      refs |-> FreshRefs @@ ("refs/heads/master" :> (ShaOf(TheCommit) \o "\n"))],
     [objects |-> CommitStore, refs |-> ("HEAD" :> (ShaOf(TheCommit) \o "\n"))]}

Messages == {"second\n", "fix\n"}

InitCommit ==
    /\ \E r \in CommitRepos : objects = r.objects /\ refs = r.refs
    /\ index \in IndexFiles
    /\ ret = NoCall
    /\ prev = NoCall
    /\ calls = 0
    /\ procs = NoProcs

\* procs keeps the commit the call created, which the call does not return
CmdCommit(message) ==
    /\ calls < MaxCalls
    /\ \E c \in {cmd_commit(objects, refs, index, message)} :
           /\ calls' = calls + 1
           /\ objects' = c.objects
           /\ refs' = c.refs
           /\ ret' = Call("cmd_commit", [message |-> message], c,
                          Changed(c.objects, c.refs, index))
           /\ procs' = [p \in {"cmd_commit"} |-> [pc |-> "done", commit |-> c.commit]]
           /\ prev' = NoCall
           /\ UNCHANGED index

NextCommit == \E message \in Messages : CmdCommit(message)

SpecCommit == InitCommit /\ [][NextCommit]_vars

-----------------------------------------------------------------------------
(* Claims on tag_create, under Spec *)

\* the ref files under refs/tags
TagRefs(rf) == {p \in DOMAIN rf : StartsWith(p, "refs/tags/")}

\* the store holds under id a tag object whose first header is `object target`
HoldsTagOn(store, id, target) ==
    LET WithRaw(raw) ==
            /\ StartsWith(raw, Encode("tag "))
            /\ StartsWith(SliceFrom(raw, Find(raw, NUL, 0) + 1),
                          Encode("object " \o target \o "\n"))
        WithFile(z) == z.exc = "" /\ WithRaw(z.val)
    IN  /\ id # None
        /\ ObjectPath(id) \in DOMAIN store
        /\ WithFile(zlib_decompress(store[ObjectPath(id)]))

\* C22: after tag_create(repo, name, ref, create_tag_object=True) completes,
\* refs/tags/<name> resolves to the identifier of a tag object that is in
\* the object store and whose object field is the identifier ref resolved
\* to; and after every call, each ref file under refs/tags resolves to an
\* identifier that object_read finds.
C22_TagRefsPointToStoredObjects ==
    [][/\ (ret'.op = "tag_create" /\ ret'.args.create_tag_object /\ ret'.exc = "") =>
              LET target == object_find(objects, refs, ret'.args.ref, "", TRUE).val
                  tagged == ref_resolve(refs', "refs/tags/" \o ret'.args.name)
              IN  tagged.exc = "" /\ HoldsTagOn(objects', tagged.val, target)
       /\ \A p \in TagRefs(refs') :
              LET id == ref_resolve(refs', p)
              IN  /\ id.exc = ""
                  /\ id.val # None
                  /\ object_read(objects', id.val) # Ok(NoObject)]_vars

-----------------------------------------------------------------------------
(* utils.py: rm and add on repositories whose index holds staged entries *)

NextStage ==
    \/ \E paths \in PathLists : Rm(paths)
    \/ \E paths \in PathLists : Add(paths)

SpecStage == InitCommit /\ [][NextStage]_vars

\* the name and identifier of the n entries of an index file's content from
\* offset idx on, in file order
RECURSIVE StagedFrom(_, _, _, _)
StagedFrom(content, idx, n, acc) ==
    LET WithOne(one) ==
            IF one.exc # "" THEN Raise(one.exc)
            ELSE StagedFrom(content, one.val.idx, n - 1,
                            Append(acc, [name |-> one.val.entry.name, sha |-> one.val.entry.sha]))
    IN  IF n = 0 THEN Ok(acc)
        ELSE IF idx + 62 > Len(content) THEN Raise("IndexError")
        ELSE WithOne(index_read_entry(content, idx))

\* the entries an index file holds; none when there is no file
StagedIn(f) ==
    IF f = NoFile THEN Ok(<<>>)
    ELSE IF Len(f) < 12 \/ Slice(f, 0, 4) # Encode("DIRC") THEN Raise("AssertionError")
    ELSE StagedFrom(SliceFrom(f, 12), 0, FromBytes(Slice(f, 8, 12)), <<>>)

\* the store holds a blob under sha
HoldsBlob(store, sha) ==
    /\ ObjectPath(sha) \in DOMAIN store
    /\ \E z \in {zlib_decompress(store[ObjectPath(sha)])} :
           z.exc = "" /\ StartsWith(z.val, Encode("blob "))

\* the entries of q whose name is outside paths, in the order of q
Others(q, paths) ==
    LET Keep(e) == e.name \notin paths
    IN  SelectSeq(q, Keep)

\* C23: on a readable index, add(repo, paths) for files of the worktree
\* completes and leaves an index file with exactly one entry for each path,
\* carrying the identifier of a stored blob, and with every earlier entry
\* for another path unchanged and in its earlier order; rm(repo, paths) for
\* staged paths completes and leaves exactly the entries paths does not name.
C23_AddAndRmEditTheIndex ==
    [][LET before == StagedIn(index)
           after == StagedIn(index')
           paths == Listed(ret'.args.paths)
           Names(q) == {q[i].name : i \in 1..Len(q)}
       IN  /\ (ret'.op = "add" /\ before.exc = "" /\ paths \subseteq DOMAIN WorkTree) =>
                  /\ ret'.exc = ""
                  /\ after.exc = ""
                  /\ \A p \in paths :
                         \E i \in 1..Len(after.val) :
                             /\ after.val[i].name = p
                             /\ HoldsBlob(objects', after.val[i].sha)
                             /\ \A j \in 1..Len(after.val) : after.val[j].name = p => j = i
                  /\ Others(after.val, paths) = Others(before.val, paths)
           /\ (ret'.op = "rm" /\ before.exc = "" /\ paths \subseteq Names(before.val)) =>
                  /\ ret'.exc = ""
                  /\ after.exc = ""
                  /\ after.val = Others(before.val, paths)]_vars

=============================================================================
